---- MODULE Spec2Model ----
(***************************************************************************)
(* TalentScout hiring assistant: the step machine of TalentScoutChatbot    *)
(* (chatbot.py), its field validation and its question bank.               *)
(*                                                                         *)
(* Text.  A Python str is a sequence of tokens.  Text typed by a user has  *)
(* one character per token; a literal of the program is one token; an      *)
(* f-string is the concatenation of its parts.  "" is << >>.               *)
(***************************************************************************)
EXTENDS Integers, Sequences, FiniteSets, TLC

VARIABLES
    conversation_started,     \* self.conversation_started
    current_step,             \* self.current_step
    tech_questions_cache,     \* self.tech_questions_cache ({} and [] are both << >>)
    current_question_index,   \* self.current_question_index
    candidate_info,           \* the caller's record: st.session_state.candidate_info
    messages,                 \* the transcript: st.session_state.messages
    generate_calls,           \* number of generate_tech_questions invocations so far
    get_response_calls,       \* number of get_response calls so far, up to MaxCalls
    ended,                    \* observer: a farewell has been returned in this session
    store,                    \* the file candidates.json
    saver,                    \* the save_candidate_data call of each session
    call,                     \* the last operation applied, its input and the state it saw
    response                  \* what the last operation returned

vars == <<conversation_started, current_step, tech_questions_cache,
          current_question_index, candidate_info, messages, generate_calls,
          get_response_calls, ended, store, saver, call, response>>

\* The chatbot, the session's record and transcript, and their observers.
sessionVars ==
    <<conversation_started, current_step, tech_questions_cache,
      current_question_index, candidate_info, messages, generate_calls,
      get_response_calls, ended>>

saveVars == <<store, saver>>

----------------------------------------------------------------------------
(* Bounds *)

\* Calls answered in the tech_questions step stop once the index reaches this.
MaxIndex == 7
\* Longest text enumerated character by character for validate_response.
MaxLen == 3
\* Longest tech stack enumerated for generate_tech_questions.
MaxStack == 4
\* Most words of a text enumerated for analyze_sentiment.
MaxWords == 3
\* Most messages submitted to the chat input between two resets.
MaxTurns == 4
\* The get_response calls of a session are counted up to this number.
MaxCalls == 14

----------------------------------------------------------------------------
(* Python's str primitives *)

Digits == {"0", "1", "2", "3", "4", "5", "6", "7", "8", "9"}

DigitChars == <<"0", "1", "2", "3", "4", "5", "6", "7", "8", "9">>

Whitespace == {" ", "\t", "\n"}

UpperCase == <<"A", "B", "C", "D", "E", "F", "G", "H", "I", "J", "K", "L", "M",
               "N", "O", "P", "Q", "R", "S", "T", "U", "V", "W", "X", "Y", "Z">>

LowerCase == <<"a", "b", "c", "d", "e", "f", "g", "h", "i", "j", "k", "l", "m",
               "n", "o", "p", "q", "r", "s", "t", "u", "v", "w", "x", "y", "z">>

Min(a, b) == IF a <= b THEN a ELSE b

\* str.isdigit on one character
isdigit(c) == c \in Digits

\* str.lower
ToLower ==
    [c \in {UpperCase[i] : i \in 1..26} |->
        LowerCase[CHOOSE i \in 1..26 : UpperCase[i] = c]]

lower_char(c) == IF c \in DOMAIN ToLower THEN ToLower[c] ELSE c

RECURSIVE lower(_)
lower(s) == IF s = << >> THEN << >> ELSE <<lower_char(Head(s))>> \o lower(Tail(s))

\* sub in s
Contains(sub, s) ==
    \E i \in 1..(Len(s) - Len(sub) + 1) : SubSeq(s, i, i + Len(sub) - 1) = sub

RECURSIVE lstrip(_)
lstrip(s) == IF s # << >> /\ Head(s) \in Whitespace THEN lstrip(Tail(s)) ELSE s

RECURSIVE rstrip(_)
rstrip(s) ==
    IF s # << >> /\ s[Len(s)] \in Whitespace
    THEN rstrip(SubSeq(s, 1, Len(s) - 1))
    ELSE s

\* str.strip
strip(s) == rstrip(lstrip(s))

\* str.split(c): the pieces between the occurrences of c, empty pieces kept
RECURSIVE split(_, _)
split(s, c) ==
    IF \E i \in 1..Len(s) : s[i] = c
    THEN LET i == CHOOSE k \in 1..Len(s) :
                      s[k] = c /\ \A j \in 1..(k - 1) : s[j] # c
         IN  <<SubSeq(s, 1, i - 1)>> \o split(SubSeq(s, i + 1, Len(s)), c)
    ELSE <<s>>

\* [part.strip() for part in parts]
RECURSIVE strip_each(_)
strip_each(parts) ==
    IF parts = << >> THEN << >>
    ELSE <<strip(Head(parts))>> \o strip_each(Tail(parts))

\* sep.join(parts)
RECURSIVE join(_, _)
join(sep, parts) ==
    IF parts = << >> THEN << >>
    ELSE IF Len(parts) = 1 THEN Head(parts)
    ELSE Head(parts) \o sep \o join(sep, Tail(parts))

\* str(n) for n >= 0
RECURSIVE Str(_)
Str(n) ==
    IF n < 10 THEN <<DigitChars[n + 1]>>
    ELSE Str(n \div 10) \o <<DigitChars[(n % 10) + 1]>>

----------------------------------------------------------------------------
(* chatbot.py: TalentScoutChatbot *)

get_initial_greeting ==
    <<"Hello! I'm the TalentScout Hiring Assistant. I'll be helping with your initial screening process. \nCould you please tell me your full name to get started?">>

get_next_question(step) ==
    CASE step = "name" -> <<"Could you please tell me your full name?">>
      [] step = "email" -> <<"What's your email address?">>
      [] step = "phone" -> <<"What's your phone number?">>
      [] step = "experience" ->
            <<"How many years of experience do you have in your field?">>
      [] step = "position" -> <<"What position(s) are you interested in?">>
      [] step = "location" -> <<"What's your current location?">>
      [] step = "tech_stack" ->
            <<"Please list your tech stack (programming languages, frameworks, databases, tools), separated by commas:">>
      [] OTHER -> << >>

ValidateWrongPhoneBound(step, text) ==
    IF text = << >> THEN FALSE
    ELSE IF step = "email" THEN Contains(<<"@">>, text) /\ Contains(<<".">>, text)
    ELSE IF step = "phone" THEN Len(SelectSeq(text, isdigit)) > 10
    ELSE IF step = "experience" THEN \E i \in 1..Len(text) : isdigit(text[i])
    ELSE TRUE

ValidateEmailEither(step, text) ==
    IF text = << >> THEN FALSE
    ELSE IF step = "email" THEN Contains(<<"@">>, text) \/ Contains(<<".">>, text)
    ELSE IF step = "phone" THEN Len(SelectSeq(text, isdigit)) >= 10
    ELSE IF step = "experience" THEN \E i \in 1..Len(text) : isdigit(text[i])
    ELSE TRUE

validate_response(step, text) ==
    IF text = << >> THEN FALSE
    ELSE IF step = "email" THEN Contains(<<"@">>, text) /\ Contains(<<".">>, text)
    ELSE IF step = "phone" THEN Len(SelectSeq(text, isdigit)) >= 10
    ELSE IF step = "experience" THEN \E i \in 1..Len(text) : isdigit(text[i])
    ELSE TRUE

exit_keywords ==
    { <<"e", "x", "i", "t">>, <<"q", "u", "i", "t">>, <<"s", "t", "o", "p">>,
      <<"b", "y", "e">>, <<"g", "o", "o", "d", "b", "y", "e">> }

ShouldEndCaseSensitive(user_input) ==
    \E keyword \in exit_keywords : Contains(keyword, user_input)

should_end_conversation(user_input) ==
    LET lowered == lower(user_input)
    IN  \E keyword \in exit_keywords : Contains(keyword, lowered)

step_sequence ==
    <<"name", "email", "phone", "experience", "position", "location",
      "tech_stack", "tech_questions">>

DetermineNextStepSkips(step) ==
    IF \E i \in 1..Len(step_sequence) : step_sequence[i] = step
    THEN LET current_index == CHOOSE i \in 1..Len(step_sequence) :
                                  step_sequence[i] = step
         IN  IF current_index < Len(step_sequence) - 1
             THEN step_sequence[current_index + 2]
             ELSE step_sequence[Len(step_sequence)]
    ELSE "name"

DetermineNextStepWraps(step) ==
    IF \E i \in 1..Len(step_sequence) : step_sequence[i] = step
    THEN LET current_index == CHOOSE i \in 1..Len(step_sequence) :
                                  step_sequence[i] = step
         IN  IF current_index < Len(step_sequence) - 1
             THEN step_sequence[current_index + 1]
             ELSE step_sequence[1]
    ELSE "name"

determine_next_step(step) ==
    IF \E i \in 1..Len(step_sequence) : step_sequence[i] = step
    THEN LET current_index == CHOOSE i \in 1..Len(step_sequence) :
                                  step_sequence[i] = step
         IN  IF current_index < Len(step_sequence)
             THEN step_sequence[current_index + 1]
             ELSE step
    ELSE "name"

UpdateWithoutStrip(step, user_input, info) ==
    CASE step = "name" -> [info EXCEPT !.name = user_input]
      [] step = "email" -> [info EXCEPT !.email = user_input]
      [] step = "phone" -> [info EXCEPT !.phone = user_input]
      [] step = "experience" -> [info EXCEPT !.experience = user_input]
      [] step = "position" -> [info EXCEPT !.position = user_input]
      [] step = "location" -> [info EXCEPT !.location = user_input]
      [] step = "tech_stack" -> [info EXCEPT !.tech_stack = split(user_input, ",")]
      [] OTHER -> info

UpdateDropsEmptyEntries(step, user_input, info) ==
    CASE step = "name" -> [info EXCEPT !.name = user_input]
      [] step = "email" -> [info EXCEPT !.email = user_input]
      [] step = "phone" -> [info EXCEPT !.phone = user_input]
      [] step = "experience" -> [info EXCEPT !.experience = user_input]
      [] step = "position" -> [info EXCEPT !.position = user_input]
      [] step = "location" -> [info EXCEPT !.location = user_input]
      [] step = "tech_stack" ->
            [info EXCEPT !.tech_stack =
                SelectSeq(strip_each(split(user_input, ",")),
                          LAMBDA tech : tech # << >>)]
      [] OTHER -> info

\* The copy that update_candidate_info returns; its argument is left as it was.
update_candidate_info(step, user_input, info) ==
    CASE step = "name" -> [info EXCEPT !.name = user_input]
      [] step = "email" -> [info EXCEPT !.email = user_input]
      [] step = "phone" -> [info EXCEPT !.phone = user_input]
      [] step = "experience" -> [info EXCEPT !.experience = user_input]
      [] step = "position" -> [info EXCEPT !.position = user_input]
      [] step = "location" -> [info EXCEPT !.location = user_input]
      [] step = "tech_stack" ->
            [info EXCEPT !.tech_stack = strip_each(split(user_input, ","))]
      [] OTHER -> info

\* The three templated questions about one technology.
tech_templates(tech) ==
    << <<"What are the main features and benefits of ">> \o tech \o <<"?">>,
       <<"Can you describe a challenging problem you solved using ">> \o tech \o <<"?">>,
       <<"What are some best practices when working with ">> \o tech \o <<"?">> >>

general_questions ==
    << <<"How do you approach learning new technologies?">>,
       <<"How do you ensure code quality in your projects?">> >>

RECURSIVE extend_templates(_)
extend_templates(techs) ==
    IF techs = << >> THEN << >>
    ELSE tech_templates(Head(techs)) \o extend_templates(Tail(techs))

GenerateTruncatesAtSix(tech_stack, experience_level) ==
    LET questions == extend_templates(SubSeq(tech_stack, 1, Min(3, Len(tech_stack))))
                         \o general_questions
    IN  SubSeq(questions, 1, Min(6, Len(questions)))

generate_tech_questions(tech_stack, experience_level) ==
    LET questions == extend_templates(SubSeq(tech_stack, 1, Min(3, Len(tech_stack))))
                         \o general_questions
    IN  SubSeq(questions, 1, Min(5, Len(questions)))

\* The chatbot object as one value.
Self ==
    [conversation_started |-> conversation_started,
     current_step |-> current_step,
     tech_questions_cache |-> tech_questions_cache,
     current_question_index |-> current_question_index]

\* handle_tech_questions, first branch: the cache is empty, so the question
\* set is generated and question 1 is asked.  Each branch gives the chatbot
\* after the call, the record object it was handed after the call, the reply,
\* and whether generate_tech_questions was invoked.
first_tech_question(self, info) ==
    LET cache == generate_tech_questions(info.tech_stack, info.experience)
    IN  [self |-> [self EXCEPT !.tech_questions_cache = cache,
                               !.current_question_index = 0],
         info |-> info,
         generated |-> TRUE,
         reply |-> <<"Great! Based on your tech stack (">>
                       \o join(<<", ">>, info.tech_stack)
                       \o <<"), ", "I'd like to ask you a few technical questions.\n\n",
                            "Question 1: ">>
                       \o cache[1]]

closing_message ==
    <<"Thank you for answering all the technical questions. ",
      "Your responses have been recorded. The TalentScout team will review your ",
      "application and get back to you soon. Is there anything else you'd like to mention?">>

NextTechQuestionRepeats(self, info) ==
    LET index == self.current_question_index + 1
        moved == [self EXCEPT !.current_question_index = index]
    IN  IF index >= Len(self.tech_questions_cache)
        THEN [self |-> moved,
              info |-> [info EXCEPT !.tech_questions_asked = TRUE],
              generated |-> FALSE,
              reply |-> closing_message]
        ELSE [self |-> moved,
              info |-> info,
              generated |-> FALSE,
              reply |-> <<"Thank you for your answer.\n\n", "Question ">>
                            \o Str(index + 1) \o <<": ">>
                            \o self.tech_questions_cache[index]]

NextTechQuestionClosesEarly(self, info) ==
    LET index == self.current_question_index + 1
        moved == [self EXCEPT !.current_question_index = index]
    IN  IF index + 1 >= Len(self.tech_questions_cache)
        THEN [self |-> moved,
              info |-> [info EXCEPT !.tech_questions_asked = TRUE],
              generated |-> FALSE,
              reply |-> closing_message]
        ELSE [self |-> moved,
              info |-> info,
              generated |-> FALSE,
              reply |-> <<"Thank you for your answer.\n\n", "Question ">>
                            \o Str(index + 1) \o <<": ">>
                            \o self.tech_questions_cache[index + 1]]

\* handle_tech_questions, second branch: the answer moves the index on.
next_tech_question(self, info) ==
    LET index == self.current_question_index + 1
        moved == [self EXCEPT !.current_question_index = index]
    IN  IF index >= Len(self.tech_questions_cache)
        THEN [self |-> moved,
              info |-> [info EXCEPT !.tech_questions_asked = TRUE],
              generated |-> FALSE,
              reply |-> closing_message]
        ELSE [self |-> moved,
              info |-> info,
              generated |-> FALSE,
              reply |-> <<"Thank you for your answer.\n\n", "Question ">>
                            \o Str(index + 1) \o <<": ">>
                            \o self.tech_questions_cache[index + 1]]

HandleRegeneratesAtIndexZero(self, info, user_response) ==
    IF self.current_question_index = 0
    THEN first_tech_question(self, info)
    ELSE next_tech_question(self, info)

handle_tech_questions(self, info, user_response) ==
    IF self.tech_questions_cache = << >>
    THEN first_tech_question(self, info)
    ELSE next_tech_question(self, info)

\* messages[-1]["content"] if messages else ""
last_content(msgs) == IF msgs = << >> THEN << >> ELSE msgs[Len(msgs)].content

farewell ==
    <<"Thank you for your time. The conversation has ended. Have a great day!">>

\* get_response once the conversation has started: the chatbot after the call,
\* the caller's record object after the call (info), the reply, and whether
\* generate_tech_questions was invoked.  update_candidate_info's copy is bound
\* to the local name only: the caller's object is written by nothing but
\* handle_tech_questions when it is handed that object.
process_turn(self, msgs, info) ==
    LET last_message == last_content(msgs)
        step == self.current_step
    IN  IF should_end_conversation(last_message)
        THEN [self |-> self, info |-> info, generated |-> FALSE,
              reply |-> farewell]
        ELSE IF step = "tech_questions"
        THEN handle_tech_questions(self, info, last_message)
        ELSE IF ~validate_response(step, last_message)
        THEN [self |-> self, info |-> info, generated |-> FALSE,
              reply |-> <<"I'm sorry, but I need a valid ", step, ". ">>
                            \o get_next_question(step)]
        ELSE LET updated_info == update_candidate_info(step, last_message, info)
                 moved == [self EXCEPT !.current_step = determine_next_step(step)]
             IN  IF moved.current_step = "tech_questions"
                 THEN LET h == handle_tech_questions(moved, updated_info, << >>)
                      IN  [self |-> h.self, info |-> info,
                           generated |-> h.generated, reply |-> h.reply]
                 ELSE [self |-> moved, info |-> info, generated |-> FALSE,
                       reply |-> <<"Thank you. ">>
                                     \o get_next_question(moved.current_step)]

GetResponseNeverStarts(self, msgs, info) ==
    IF ~self.conversation_started
    THEN [self |-> self, info |-> info, generated |-> FALSE,
          reply |-> get_initial_greeting]
    ELSE process_turn(self, msgs, info)

\* get_response(self, messages, candidate_info)
get_response(self, msgs, info) ==
    IF ~self.conversation_started
    THEN [self |-> [self EXCEPT !.conversation_started = TRUE],
          info |-> info, generated |-> FALSE,
          reply |-> get_initial_greeting]
    ELSE process_turn(self, msgs, info)

----------------------------------------------------------------------------
(* utils.py *)

\* re.sub(r'<[^>]*>', '', text): leftmost first, a match runs from a '<' to
\* the first '>' after it; a '<' with no '>' after it matches nothing.
RECURSIVE remove_tags(_)
remove_tags(text) ==
    IF \E i \in 1..Len(text) :
           text[i] = "<" /\ \E j \in (i + 1)..Len(text) : text[j] = ">"
    THEN LET i == CHOOSE k \in 1..Len(text) :
                      /\ text[k] = "<"
                      /\ \A h \in 1..(k - 1) : text[h] # "<"
             j == CHOOSE k \in (i + 1)..Len(text) :
                      /\ text[k] = ">"
                      /\ \A h \in (i + 1)..(k - 1) : text[h] # ">"
         IN  SubSeq(text, 1, i - 1) \o remove_tags(SubSeq(text, j + 1, Len(text)))
    ELSE text

\* re.sub(r'[;\\\\/]', '', text)
remove_special(text) == SelectSeq(text, LAMBDA c : c \notin {";", "\\", "/"})

SanitizeStripsFirst(text) == remove_special(remove_tags(strip(text)))

sanitize_input(text) == strip(remove_special(remove_tags(text)))

positive_words ==
    { <<"g", "r", "e", "a", "t">>, <<"g", "o", "o", "d">>, <<"e", "x", "c", "e", "l", "l", "e", "n", "t">>, <<"a", "m", "a", "z", "i", "n", "g">>, <<"l", "o", "v", "e">>, <<"e", "n", "j", "o", "y">>, <<"p", "a", "s", "s", "i", "o", "n", "a", "t", "e">> }

negative_words ==
    { <<"b", "a", "d">>, <<"d", "i", "f", "f", "i", "c", "u", "l", "t">>, <<"h", "a", "r", "d">>, <<"p", "r", "o", "b", "l", "e", "m">>, <<"i", "s", "s", "u", "e">>, <<"c", "h", "a", "l", "l", "e", "n", "g", "i", "n", "g">> }

\* str.split(): the maximal runs of non-whitespace characters
RECURSIVE split_whitespace(_)
split_whitespace(s) ==
    LET t == lstrip(s)
    IN  IF t = << >> THEN << >>
        ELSE LET n == IF \E i \in 1..Len(t) : t[i] \in Whitespace
                      THEN CHOOSE i \in 1..Len(t) :
                               /\ t[i] \in Whitespace
                               /\ \A h \in 1..(i - 1) : t[h] \notin Whitespace
                      ELSE Len(t) + 1
             IN  <<SubSeq(t, 1, n - 1)>> \o split_whitespace(SubSeq(t, n, Len(t)))

AnalyzeCountsRepeats(text) ==
    LET words == split_whitespace(lower(text))
        positive_count == Len(SelectSeq(words, LAMBDA w : w \in positive_words))
        negative_count == Len(SelectSeq(words, LAMBDA w : w \in negative_words))
    IN  IF positive_count > negative_count THEN "positive"
        ELSE IF negative_count > positive_count THEN "negative"
        ELSE "neutral"

analyze_sentiment(text) ==
    LET tokens == split_whitespace(lower(text))
        words == { tokens[i] : i \in 1..Len(tokens) }
        positive_count == Cardinality(words \cap positive_words)
        negative_count == Cardinality(words \cap negative_words)
    IN  IF positive_count > negative_count THEN "positive"
        ELSE IF negative_count > positive_count THEN "negative"
        ELSE "neutral"

\* hashlib.sha256(data.encode()).hexdigest(): the digest is a text of its own,
\* different for different data, from which the data cannot be read back.
hash_sensitive_data(data) == <<"sha256(">> \o data \o <<")">>

SecureCopyKeepsPhone(info) ==
    [info EXCEPT !.email = hash_sensitive_data(@)]

\* secure_info: info.copy() with email and phone hashed. Both keys are in
\* every record the application builds.
secure_copy(info) ==
    [info EXCEPT !.email = hash_sensitive_data(@),
                 !.phone = hash_sensitive_data(@)]

\* json.load of the file, FileNotFoundError and JSONDecodeError caught.
load_existing(file) == IF file.kind = "list" THEN file.data ELSE << >>

----------------------------------------------------------------------------
(* app.py: the chat loop *)

\* The message main() appends for the user's input, and what it adds to the
\* record's sentiment_history.
user_turn(msgs, info, clean_input) ==
    LET sentiment == analyze_sentiment(clean_input)
    IN  [info |-> [info EXCEPT !.sentiment_history = Append(@, sentiment)],
         messages |-> Append(msgs, [role |-> "user", content |-> clean_input,
                                    sentiment |-> sentiment])]

MainTurnRepliesOnlyOnceStarted(self, msgs, info, prompt) ==
    LET clean_input == sanitize_input(prompt)
        u == user_turn(msgs, info, clean_input)
        r == get_response(self, u.messages, u.info)
    IN  [self |-> r.self, info |-> r.info, generated |-> r.generated,
         reply |-> r.reply, clean_input |-> clean_input,
         messages |-> IF self.conversation_started
                      THEN Append(u.messages,
                                  [role |-> "assistant", content |-> r.reply])
                      ELSE u.messages]

\* The body of `if prompt := st.chat_input(...)`: the session after one
\* submitted prompt. get_response raises nothing on the session's record, so
\* the except branch is never taken.
main_turn(self, msgs, info, prompt) ==
    LET clean_input == sanitize_input(prompt)
        u == user_turn(msgs, info, clean_input)
        r == get_response(self, u.messages, u.info)
    IN  [self |-> r.self, info |-> r.info, generated |-> r.generated,
         reply |-> r.reply, clean_input |-> clean_input,
         messages |-> Append(u.messages,
                             [role |-> "assistant", content |-> r.reply])]

----------------------------------------------------------------------------
(* The messages a caller sends *)

JohnSmith == <<"J", "o", "h", "n", " ", "S", "m", "i", "t", "h">>
Blank == <<" ", " ">>
Abc == <<"a", "b", "c">>
Email == <<"a", "@", "b", ".", "c">>
Phone == <<"5", "5", "5", "-", "1", "2", "3", "-", "4", "5", "6", "7">>
ShortPhone == <<"1", "2", "3", "4", "5">>
Years == <<"5", " ", "y", "e", "a", "r", "s">>
StackOfFour ==
    <<"P", "y", "t", "h", "o", "n", ",", " ", "R", "e", "a", "c", "t", ",", " ",
      "N", "o", "d", "e", ".", "j", "s", ",", " ", "G", "o">>
StackOfOne == <<"G", "o">>
StackOfDuplicates == <<"G", "o", ",", "g", "o", ",", " ", ",", "G", "o">>
IQuitThis == <<"I", " ", "q", "u", "i", "t", " ", "t", "h", "i", "s">>
ByeUpper == <<"B", "Y", "E">>
Nonstop == <<"n", "o", "n", "S", "t", "o", "p", "1">>

Inputs ==
    { << >>, Blank, JohnSmith, Abc, Email, Phone, ShortPhone, Years,
      StackOfFour, StackOfOne, StackOfDuplicates, IQuitThis, ByeUpper, Nonstop }

\* The transcripts handed to get_response: empty, or ending in a user message.
Transcripts ==
    { << >> } \cup { <<[role |-> "user", content |-> m]>> : m \in Inputs }

----------------------------------------------------------------------------
(* The session *)

\* The browser sessions that can press "Save Candidate Data" at the same time.
Sessions == {1, 2}

\* TalentScoutChatbot.__init__ and app.py's initialize_session_state
InitSession ==
    /\ conversation_started = FALSE
    /\ current_step = "name"
    /\ tech_questions_cache = << >>
    /\ current_question_index = 0
    /\ candidate_info =
          [name |-> << >>, email |-> << >>, phone |-> << >>, experience |-> << >>,
           position |-> << >>, location |-> << >>, tech_stack |-> << >>,
           tech_questions_asked |-> FALSE, sentiment_history |-> << >>]
    /\ messages = << >>
    /\ generate_calls = 0
    /\ get_response_calls = 0
    /\ ended = FALSE

\* No candidates.json yet, and nobody saving.
InitStore ==
    /\ store = [kind |-> "absent", data |-> << >>]
    /\ saver = [s \in Sessions |->
                   [pc |-> "idle", info |-> candidate_info,
                    secure_info |-> candidate_info, data |-> << >>]]

Init ==
    /\ InitSession
    /\ InitStore
    /\ call = [op |-> "none", msg |-> << >>, started |-> FALSE, step |-> "name"]
    /\ response = << >>

\* One call chatbot.get_response(msgs, candidate_info) on the session's record.
GetResponse(msgs) ==
    \E r \in {get_response(Self, msgs, candidate_info)} :
        /\ current_question_index < MaxIndex
        /\ conversation_started' = r.self.conversation_started
        /\ current_step' = r.self.current_step
        /\ tech_questions_cache' = r.self.tech_questions_cache
        /\ current_question_index' = r.self.current_question_index
        /\ candidate_info' = r.info
        /\ generate_calls' = generate_calls + (IF r.generated THEN 1 ELSE 0)
        /\ get_response_calls' = Min(get_response_calls + 1, MaxCalls)
        /\ ended' = (ended \/ r.reply = farewell)
        /\ call' = [op |-> "get_response", msg |-> last_content(msgs),
                    started |-> conversation_started, step |-> current_step]
        /\ response' = r.reply
        /\ UNCHANGED <<messages, store, saver>>

\* One direct call chatbot.handle_tech_questions(candidate_info, user_response).
HandleTechQuestions(user_response) ==
    \E h \in {handle_tech_questions(Self, candidate_info, user_response)} :
        /\ current_question_index < MaxIndex
        /\ tech_questions_cache' = h.self.tech_questions_cache
        /\ current_question_index' = h.self.current_question_index
        /\ candidate_info' = h.info
        /\ generate_calls' = generate_calls + (IF h.generated THEN 1 ELSE 0)
        /\ call' = [op |-> "handle_tech_questions", msg |-> user_response,
                    started |-> conversation_started, step |-> current_step]
        /\ response' = h.reply
        /\ UNCHANGED <<conversation_started, current_step, messages, ended,
                       get_response_calls, store, saver>>

Next == \E msgs \in Transcripts : GetResponse(msgs)

Spec == Init /\ [][Next]_vars

NextApi ==
    \/ \E msgs \in Transcripts : GetResponse(msgs)
    \/ \E m \in Inputs : HandleTechQuestions(m)

SpecApi == Init /\ [][NextApi]_vars

----------------------------------------------------------------------------
(* validate_response as a function: every step, every text of the alphabet *)

ValidateAlphabet == {"a", "1", "@", ".", " "}

NineDigits == <<"1", "2", "3", "4", "5", "6", "7", "8", "9">>
ElevenDigits == NineDigits \o <<"0", "1">>
SixteenDigits == NineDigits \o <<"0", "1", "2", "3", "4", "5", "6">>
NineDigitsSpaced == <<"(", "1", "2", "3", ")", " ", "4", "5", "6", "-", "7", "8", "9", " ", "x">>

ValidateTexts ==
    UNION { [1..n -> ValidateAlphabet] : n \in 0..MaxLen }
        \cup Inputs
        \cup { NineDigits, NineDigits \o <<"0">>, ElevenDigits, SixteenDigits,
               NineDigitsSpaced, NineDigitsSpaced \o <<"0">> }

ValidateSteps == { step_sequence[i] : i \in 1..Len(step_sequence) }

InitValidate ==
    /\ InitSession
    /\ InitStore
    /\ call \in [op : {"validate_response?"}, msg : ValidateTexts,
                 started : {FALSE}, step : ValidateSteps]
    /\ response = << >>

\* self.validate_response(step, response)
Validate ==
    /\ call.op = "validate_response?"
    /\ call' = [call EXCEPT !.op = "validate_response"]
    /\ response' = validate_response(call.step, call.msg)
    /\ UNCHANGED <<sessionVars, saveVars>>

SpecValidate == InitValidate /\ [][Validate]_vars

----------------------------------------------------------------------------
(* generate_tech_questions as a function: every stack up to MaxStack *)

Python == <<"P", "y", "t", "h", "o", "n">>
React == <<"R", "e", "a", "c", "t">>
NodeJs == <<"N", "o", "d", "e", ".", "j", "s">>
Go == <<"G", "o">>

Technologies == {Python, React, Go}

TechStacks ==
    UNION { [1..n -> Technologies] : n \in 0..MaxStack }
        \cup { <<Python, React, NodeJs, Go>> }

ExperienceLevels == { << >>, <<"5">>, Years }

InitQuestions ==
    /\ InitSession
    /\ InitStore
    /\ call \in [op : {"generate_tech_questions?"}, tech_stack : TechStacks,
                 experience_level : ExperienceLevels]
    /\ response = << >>

\* self.generate_tech_questions(tech_stack, experience_level)
Generate ==
    /\ call.op = "generate_tech_questions?"
    /\ call' = [call EXCEPT !.op = "generate_tech_questions"]
    /\ response' = generate_tech_questions(call.tech_stack, call.experience_level)
    /\ UNCHANGED <<sessionVars, saveVars>>

SpecQuestions == InitQuestions /\ [][Generate]_vars

----------------------------------------------------------------------------
(* The session driven from the chat input of app.py *)

GoodTag == <<"<", "b", ">", "g", "o", "o", "d", "<", "/", "b", ">">>
BadSemicolon == <<"b", "a", "d", ";">>
OnlySemicolon == <<";">>

\* What the user types into the chat input.
Prompts == { GoodTag, BadSemicolon, OnlySemicolon, Email, ByeUpper, << >> }

\* One run of main() with a prompt submitted; an empty prompt is no turn.
Main(prompt) ==
    /\ prompt # << >>
    /\ Len(messages) < 2 * MaxTurns
    /\ \E t \in {main_turn(Self, messages, candidate_info, prompt)} :
        /\ conversation_started' = t.self.conversation_started
        /\ current_step' = t.self.current_step
        /\ tech_questions_cache' = t.self.tech_questions_cache
        /\ current_question_index' = t.self.current_question_index
        /\ candidate_info' = t.info
        /\ messages' = t.messages
        /\ generate_calls' = generate_calls + (IF t.generated THEN 1 ELSE 0)
        /\ get_response_calls' = Min(get_response_calls + 1, MaxCalls)
        /\ ended' = (ended \/ t.reply = farewell)
        /\ call' = [op |-> "main", msg |-> t.clean_input,
                    started |-> conversation_started, step |-> current_step]
        /\ response' = t.reply
    /\ UNCHANGED saveVars

\* "Reset Conversation": session_state.clear(), then the rerun's
\* initialize_session_state.
Reset ==
    /\ conversation_started' = FALSE
    /\ current_step' = "name"
    /\ tech_questions_cache' = << >>
    /\ current_question_index' = 0
    /\ candidate_info' =
          [name |-> << >>, email |-> << >>, phone |-> << >>, experience |-> << >>,
           position |-> << >>, location |-> << >>, tech_stack |-> << >>,
           tech_questions_asked |-> FALSE, sentiment_history |-> << >>]
    /\ messages' = << >>
    /\ generate_calls' = 0
    /\ get_response_calls' = 0
    /\ ended' = FALSE
    /\ call' = [op |-> "reset", msg |-> << >>,
                started |-> conversation_started, step |-> current_step]
    /\ response' = << >>
    /\ UNCHANGED saveVars

NextUI ==
    \/ \E prompt \in Prompts : Main(prompt)
    \/ Reset

SpecUI == Init /\ [][NextUI]_vars

----------------------------------------------------------------------------
(* save_candidate_data, run by the sessions on one candidates.json *)

EmptyRecord ==
    [name |-> << >>, email |-> << >>, phone |-> << >>, experience |-> << >>,
     position |-> << >>, location |-> << >>, tech_stack |-> << >>,
     tech_questions_asked |-> FALSE, sentiment_history |-> << >>]

\* The records handed to save_candidate_data: the one the application holds,
\* and records with the contact fields filled.
SaveRecords ==
    { EmptyRecord,
      [EmptyRecord EXCEPT !.name = JohnSmith, !.email = Email, !.phone = Phone,
                          !.sentiment_history = <<"positive">>],
      [EmptyRecord EXCEPT !.name = Abc, !.phone = ShortPhone,
                          !.tech_stack = <<StackOfOne>>] }

\* candidates.json before the calls: not there, not JSON, or a list that
\* earlier calls wrote.
InitialStores ==
    { [kind |-> "absent", data |-> << >>],
      [kind |-> "corrupt", data |-> << >>],
      [kind |-> "list", data |-> << >>],
      [kind |-> "list",
       data |-> <<secure_copy([EmptyRecord EXCEPT !.email = Email])>>] }

InitSave ==
    /\ InitSession
    /\ store \in InitialStores
    /\ \E infos \in [Sessions -> SaveRecords] :
           /\ saver = [s \in Sessions |->
                          [pc |-> "idle", info |-> infos[s],
                           secure_info |-> EmptyRecord, data |-> << >>]]
           /\ call = [op |-> "save_candidate_data", store |-> store,
                      info |-> infos]
    /\ response = << >>

\* secure_info = info.copy() and the two hashes
SaveHash(s) ==
    /\ saver[s].pc = "idle"
    /\ saver' = [saver EXCEPT ![s].pc = "hashed",
                              ![s].secure_info = secure_copy(saver[s].info)]
    /\ UNCHANGED <<sessionVars, store, call, response>>

\* The inner try: data is the stored list, or [] for no file or no JSON.
SaveLoad(s) ==
    /\ saver[s].pc = "hashed"
    /\ saver' = [saver EXCEPT ![s].pc = "loaded",
                              ![s].data = load_existing(store)]
    /\ UNCHANGED <<sessionVars, store, call, response>>

\* open(filename, 'r') fails with another OSError: caught by the outer except.
SaveLoadFails(s) ==
    /\ saver[s].pc = "hashed"
    /\ saver' = [saver EXCEPT ![s].pc = "swallowed"]
    /\ UNCHANGED <<sessionVars, store, call, response>>

\* data.append(secure_info)
SaveAppend(s) ==
    /\ saver[s].pc = "loaded"
    /\ saver' = [saver EXCEPT ![s].pc = "appended",
                              ![s].data = Append(@, saver[s].secure_info)]
    /\ UNCHANGED <<sessionVars, store, call, response>>

\* open(filename, 'w') truncates the file: empty, it is no JSON.
SaveOpen(s) ==
    /\ saver[s].pc = "appended"
    /\ saver' = [saver EXCEPT ![s].pc = "opened"]
    /\ store' = [kind |-> "corrupt", data |-> << >>]
    /\ UNCHANGED <<sessionVars, call, response>>

\* open(filename, 'w') fails: caught by the outer except, the file as it was.
SaveOpenFails(s) ==
    /\ saver[s].pc = "appended"
    /\ saver' = [saver EXCEPT ![s].pc = "swallowed"]
    /\ UNCHANGED <<sessionVars, store, call, response>>

\* json.dump(data, f) and the close: the file holds this call's list.
SaveDump(s) ==
    /\ saver[s].pc = "opened"
    /\ saver' = [saver EXCEPT ![s].pc = "saved"]
    /\ store' = [kind |-> "list", data |-> saver[s].data]
    /\ UNCHANGED <<sessionVars, call, response>>

\* The write fails: caught by the outer except, the file left as it is.
SaveDumpFails(s) ==
    /\ saver[s].pc = "opened"
    /\ saver' = [saver EXCEPT ![s].pc = "swallowed"]
    /\ UNCHANGED <<sessionVars, store, call, response>>

SaveCandidateData(s) ==
    \/ SaveHash(s)
    \/ SaveLoad(s)
    \/ SaveLoadFails(s)
    \/ SaveAppend(s)
    \/ SaveOpen(s)
    \/ SaveOpenFails(s)
    \/ SaveDump(s)
    \/ SaveDumpFails(s)

NextSave == \E s \in Sessions : SaveCandidateData(s)

SpecSave == InitSave /\ [][NextSave]_vars

----------------------------------------------------------------------------
(* sanitize_input as a function: every text of the alphabet up to MaxLen *)

SanitizeAlphabet == {"<", ">", ";", "/", "\\", "a", " "}

ScriptExample ==
    <<"<", "s", "c", "r", "i", "p", "t", ">", "a", "l", "e", "r", "t", "(", "1", ")", "<", "/", "s", "c", "r", "i", "p", "t", ">", "h", "e", "l", "l", "o", ";", " ", "w", "o", "r", "l", "d", "/", "t", "e", "s", "t">>

SanitizeTexts ==
    UNION { [1..n -> SanitizeAlphabet] : n \in 0..MaxLen }
        \cup { ScriptExample, <<"<", "a", ";", "<", ">", " ", "a", ">", "<">>,
               <<" ", ";", " ", "a", "/", "\t">> }

InitSanitize ==
    /\ InitSession
    /\ InitStore
    /\ call \in [op : {"sanitize_input?"}, text : SanitizeTexts]
    /\ response = << >>

\* sanitize_input(text)
Sanitize ==
    /\ call.op = "sanitize_input?"
    /\ call' = [call EXCEPT !.op = "sanitize_input"]
    /\ response' = sanitize_input(call.text)
    /\ UNCHANGED <<sessionVars, saveVars>>

SpecSanitize == InitSanitize /\ [][Sanitize]_vars

----------------------------------------------------------------------------
(* analyze_sentiment as a function: every text of up to MaxWords words *)

Vocabulary ==
    { <<"G", "r", "e", "a", "t">>, <<"g", "o", "o", "d">>, <<"b", "a", "d">>, <<"h", "a", "r", "d">>, <<"g", "r", "e", "a", "t", "!">>, <<"J", "a", "v", "a">> }

WordLists ==
    UNION { [1..n -> Vocabulary] : n \in 0..MaxWords }
        \cup { <<<<"T", "h", "i", "s">>, <<"w", "a", "s">>, <<"a">>, <<"g", "r", "e", "a", "t">>, <<"a", "n", "d">>, <<"a", "m", "a", "z", "i", "n", "g">>, <<"e", "x", "p", "e", "r", "i", "e", "n", "c", "e">>>>,
               <<<<"T", "h", "i", "s">>, <<"i", "s">>, <<"h", "a", "r", "d">>, <<"a", "n", "d">>, <<"a">>, <<"d", "i", "f", "f", "i", "c", "u", "l", "t">>, <<"p", "r", "o", "b", "l", "e", "m">>>>,
               <<<<"I">>, <<"w", "o", "r", "k">>, <<"w", "i", "t", "h">>, <<"J", "a", "v", "a">>>> }

\* What stands between and around the words of a text.
Separators == { [between |-> <<" ">>, around |-> << >>],
                [between |-> <<" ", "\t">>, around |-> <<"\n">>] }

InitSentiment ==
    /\ InitSession
    /\ InitStore
    /\ call \in [op : {"analyze_sentiment?"}, words : WordLists, sep : Separators]
    /\ response = << >>

\* analyze_sentiment(text), the text being the words with their separators
Analyze ==
    /\ call.op = "analyze_sentiment?"
    /\ call' = [call EXCEPT !.op = "analyze_sentiment"]
    /\ response' = analyze_sentiment(
                       call.sep.around \o join(call.sep.between, call.words)
                           \o call.sep.around)
    /\ UNCHANGED <<sessionVars, saveVars>>

SpecSentiment == InitSentiment /\ [][Analyze]_vars

----------------------------------------------------------------------------
(* What the claims are stated with *)

FieldSteps ==
    {"name", "email", "phone", "experience", "position", "location", "tech_stack"}

\* The fixed order of the steps.
Successor ==
    [name |-> "email", email |-> "phone", phone |-> "experience",
     experience |-> "position", position |-> "location",
     location |-> "tech_stack", tech_stack |-> "tech_questions"]

Chars(text) == { text[i] : i \in 1..Len(text) }

\* The reference validity predicate of the field validator.
RefValid(step, text) ==
    /\ Len(text) > 0
    /\ CASE step = "email" -> "@" \in Chars(text) /\ "." \in Chars(text)
         [] step = "phone" ->
               Cardinality({ i \in 1..Len(text) : text[i] \in Digits }) >= 10
         [] step = "experience" -> Chars(text) \cap Digits # {}
         [] OTHER -> TRUE

\* An exit keyword occurs in the text, whatever the letter case.
MentionsExit(text) ==
    \E i \in 1..Len(text) : \E j \in i..Len(text) :
        lower(SubSeq(text, i, j)) \in
            { <<"e", "x", "i", "t">>, <<"q", "u", "i", "t">>, <<"s", "t", "o", "p">>,
              <<"b", "y", "e">>, <<"g", "o", "o", "d", "b", "y", "e">> }

\* Empty, or whitespace only.
IsBlank(text) == \A i \in 1..Len(text) : text[i] \in Whitespace

Rejection(step) ==
    <<"I'm sorry, but I need a valid ", step, ". ">> \o get_next_question(step)

\* The last call was get_response in a started session, at a field step, with
\* a message that is valid for the step and has no exit keyword.
Accepted ==
    /\ call.op = "get_response"
    /\ call.started
    /\ call.step \in FieldSteps
    /\ RefValid(call.step, call.msg)
    /\ ~MentionsExit(call.msg)

ProgressUnchanged ==
    UNCHANGED <<current_step, candidate_info, tech_questions_cache,
                current_question_index>>

----------------------------------------------------------------------------
(* C1..C10 *)

\* C1: after get_response accepted a valid message at field step s, the
\* caller's record holds that message in field s (for tech_stack: the parsed
\* list of its entries).
C1_RecordHoldsAcceptedAnswer ==
    Accepted =>
        IF call.step = "tech_stack"
        THEN candidate_info.tech_stack = strip_each(split(call.msg, ","))
        ELSE candidate_info[call.step] = call.msg

\* C2: an accepted message moves the step cursor to exactly the successor of
\* the step it answered, and the reply is "Thank you. " followed by the new
\* step's prompt unless the new step is tech_questions.
C2_AcceptedAdvancesOneStep ==
    Accepted =>
        /\ current_step = Successor[call.step]
        /\ current_step # "tech_questions" =>
              response = <<"Thank you. ">> \o get_next_question(current_step)

C2_Witness ==
    /\ Accepted
    /\ call.step = "phone"
    /\ call.msg = Phone
    /\ current_step = "experience"
    /\ response = <<"Thank you. ",
                    "How many years of experience do you have in your field?">>

\* C3 as stated: on every turn, the first turn of a fresh session included, a
\* message with an exit keyword gets the farewell and no field processing.
C3_ExitOnEveryTurn ==
    [][(call'.op = "get_response" /\ MentionsExit(call'.msg)) =>
          (response' = farewell /\ ProgressUnchanged)]_vars

\* C3 as amended: in a started session (every turn after the greeting turn),
\* at every step, a message with an exit keyword gets the farewell and no
\* field processing.
C3_ExitInStartedSession ==
    [][(call'.op = "get_response" /\ conversation_started
            /\ MentionsExit(call'.msg)) =>
          (response' = farewell /\ ProgressUnchanged
              /\ UNCHANGED <<conversation_started, generate_calls>>)]_vars

C3_Witness ==
    /\ call.op = "get_response"
    /\ call.started
    /\ call.step = "tech_questions"
    /\ call.msg = Nonstop
    /\ response = farewell
    /\ current_step = "tech_questions"
    /\ current_question_index = 2

\* C4: once a turn has returned the farewell, every later get_response call
\* returns the farewell and changes neither the step cursor, the record, the
\* question cache nor the progress index.
C4_EndedIsTerminal ==
    [][(ended /\ call'.op = "get_response") =>
          (response' = farewell /\ ProgressUnchanged)]_vars

\* C5: the first get_response call of a fresh session returns the greeting
\* whatever the message, leaves the step at name, the record as it was and
\* the cache empty, and stores the message in no field; no later call
\* returns the greeting.
C5_GreetingConsumesNoStep ==
    [][call'.op = "get_response" =>
          IF call.op = "none"
          THEN /\ response' = get_initial_greeting
               /\ current_step' = "name"
               /\ candidate_info' = candidate_info
               /\ tech_questions_cache' = << >>
               /\ current_question_index' = 0
               /\ candidate_info'.tech_stack = << >>
               /\ \A f \in FieldSteps \ {"tech_stack"} :
                     call'.msg # << >> => candidate_info'[f] # call'.msg
          ELSE response' # get_initial_greeting]_vars

C5_Witness ==
    /\ call.op = "get_response"
    /\ ~call.started
    /\ call.msg = JohnSmith
    /\ response = get_initial_greeting
    /\ conversation_started
    /\ current_step = "name"
    /\ candidate_info.name = << >>

\* C6: in a started session at a field step, a message without exit keyword
\* that is invalid for the step gets the rejection prefix followed by the same
\* step's prompt, and the whole session state is left as it was.
C6_RejectionChangesNothing ==
    [][(call'.op = "get_response" /\ conversation_started
            /\ current_step \in FieldSteps
            /\ ~MentionsExit(call'.msg)
            /\ ~RefValid(current_step, call'.msg)) =>
          (/\ response' = Rejection(current_step)
           /\ ProgressUnchanged
           /\ UNCHANGED <<conversation_started, generate_calls>>)]_vars

C6_Witness ==
    /\ call.op = "get_response"
    /\ call.started
    /\ call.step = "phone"
    /\ call.msg = ShortPhone
    /\ current_step = "phone"
    /\ response = <<"I'm sorry, but I need a valid ", "phone", ". ",
                    "What's your phone number?">>

\* C7: at every field step of a started session, a message that is empty or
\* whitespace only is rejected by get_response and the step does not advance.
C7_BlankIsRejected ==
    (call.op = "get_response" /\ call.started /\ call.step \in FieldSteps
        /\ IsBlank(call.msg)) =>
        (response = Rejection(call.step) /\ current_step = call.step)

\* C8: validate_response(step, text) is a boolean and equals the reference
\* predicate for every step and text; the empty text is invalid for every step.
C8_ValidateMatchesReference ==
    call.op = "validate_response" =>
        /\ response \in BOOLEAN
        /\ response = RefValid(call.step, call.msg)
        /\ call.msg = << >> => response = FALSE

C8_Witness ==
    /\ call.op = "validate_response"
    /\ call.step = "phone"
    /\ call.msg = Phone
    /\ response = TRUE

\* What C9 expects of a stack: the first entry's three questions and the
\* second entry's first two; or the only entry's three and the two general
\* ones; or the two general ones.
ExpectedQuestions(stack) ==
    LET Q(k, tech) == tech_templates(tech)[k]
    IN  IF Len(stack) >= 2
        THEN <<Q(1, stack[1]), Q(2, stack[1]), Q(3, stack[1]),
               Q(1, stack[2]), Q(2, stack[2])>>
        ELSE IF Len(stack) = 1
        THEN <<Q(1, stack[1]), Q(2, stack[1]), Q(3, stack[1])>> \o general_questions
        ELSE general_questions

\* C9: generate_tech_questions returns the first 5 of (3 templated questions
\* per entry of the first 3 entries, then the 2 general questions), whatever
\* the experience argument.
C9_FirstFiveQuestions ==
    call.op = "generate_tech_questions" =>
        /\ response = ExpectedQuestions(call.tech_stack)
        /\ Len(response) = (IF call.tech_stack = << >> THEN 2 ELSE 5)

C9_Witness ==
    /\ call.op = "generate_tech_questions"
    /\ call.tech_stack = <<Python, React, NodeJs, Go>>
    /\ call.experience_level = Years
    /\ response =
          << <<"What are the main features and benefits of ">> \o Python \o <<"?">>,
             <<"Can you describe a challenging problem you solved using ">>
                 \o Python \o <<"?">>,
             <<"What are some best practices when working with ">> \o Python \o <<"?">>,
             <<"What are the main features and benefits of ">> \o React \o <<"?">>,
             <<"Can you describe a challenging problem you solved using ">>
                 \o React \o <<"?">> >>

\* C10: over any sequence of get_response and handle_tech_questions calls,
\* generate_tech_questions is invoked at most once, the cache is filled
\* exactly when it has been invoked, and a filled cache never changes.
C10_GeneratedOnce ==
    [][/\ generate_calls' <= 1
       /\ (tech_questions_cache' # << >>) <=> (generate_calls' = 1)
       /\ tech_questions_cache # << >> =>
             tech_questions_cache' = tech_questions_cache]_vars

C10_Witness ==
    /\ call.op = "handle_tech_questions"
    /\ generate_calls = 1
    /\ current_step = "tech_questions"
    /\ current_question_index = 3
    /\ Len(tech_questions_cache) = 5

----------------------------------------------------------------------------
(* C11, C12, C17, C18, C20: the session driven through get_response *)

AllSteps == FieldSteps \cup {"tech_questions"}

\* The position of a step in the fixed order.
StepPos ==
    [name |-> 1, email |-> 2, phone |-> 3, experience |-> 4, position |-> 5,
     location |-> 6, tech_stack |-> 7, tech_questions |-> 8]

\* The entries a tech-stack answer declares: the pieces between its commas,
\* each without the whitespace around it; order, duplicates, letter case and
\* empty entries kept.
CommaAt(text, k) ==
    IF k = 0 THEN 0
    ELSE IF k > Cardinality({ q \in 1..Len(text) : text[q] = "," }) THEN Len(text) + 1
    ELSE CHOOSE p \in 1..Len(text) :
             text[p] = "," /\ Cardinality({ q \in 1..p : text[q] = "," }) = k

Trimmed(piece) ==
    LET solid == { i \in 1..Len(piece) : piece[i] \notin Whitespace }
    IN  IF solid = {} THEN << >>
        ELSE SubSeq(piece, CHOOSE i \in solid : \A j \in solid : i <= j,
                           CHOOSE i \in solid : \A j \in solid : i >= j)

DeclaredStack(text) ==
    [k \in 1..(Cardinality({ q \in 1..Len(text) : text[q] = "," }) + 1) |->
        Trimmed(SubSeq(text, CommaAt(text, k - 1) + 1, CommaAt(text, k) - 1))]

\* C11: in the tech_questions step with n cached questions, a call with a
\* message without exit keyword moves the index on by one; while the new index
\* is below n the reply is the question at that index, numbered index + 1, and
\* tech_questions_asked is untouched; from n on the reply is the closing
\* message and tech_questions_asked is true; it first becomes true at index n
\* and is never true with the index below n.
C11_QuestionsInOrder ==
    [][(call'.op = "get_response" /\ conversation_started
            /\ current_step = "tech_questions"
            /\ tech_questions_cache # << >>
            /\ ~MentionsExit(call'.msg)) =>
          LET n == Len(tech_questions_cache)
              i == current_question_index + 1
          IN  /\ current_question_index' = i
              /\ tech_questions_cache' = tech_questions_cache
              /\ IF i < n
                 THEN /\ response' = <<"Thank you for your answer.\n\n", "Question ">>
                                         \o Str(i + 1) \o <<": ">>
                                         \o tech_questions_cache[i + 1]
                      /\ candidate_info' = candidate_info
                      /\ ~candidate_info'.tech_questions_asked
                 ELSE /\ response' = closing_message
                      /\ candidate_info'.tech_questions_asked
                      /\ ~candidate_info.tech_questions_asked => i = n]_vars

C11_Witness ==
    /\ call.op = "get_response"
    /\ call.step = "tech_questions"
    /\ call.msg = JohnSmith
    /\ current_question_index = 2
    /\ ~candidate_info.tech_questions_asked
    /\ response = <<"Thank you for your answer.\n\n", "Question ", "3", ": ",
                    "What are some best practices when working with ">>
                      \o Python \o <<"?">>

\* C12: the position of current_step in the fixed order never decreases,
\* current_step is always one of the eight steps, and once tech_questions is
\* reached the cursor stays there.
C12_NoBacktracking ==
    [][/\ current_step' \in AllSteps
       /\ StepPos[current_step'] >= StepPos[current_step]
       /\ current_step = "tech_questions" => current_step' = "tech_questions"]_vars

C12_Witness ==
    /\ call.op = "get_response"
    /\ call.step = "tech_questions"
    /\ call.msg = Email
    /\ current_step = "tech_questions"
    /\ candidate_info.tech_questions_asked

\* C17: in every reachable state 0 <= current_question_index <= the length
\* of the question set: messages sent after the closing message do not move
\* the index past the length.
C17_IndexWithinQuestionSet ==
    /\ 0 <= current_question_index
    /\ current_question_index <= Len(tech_questions_cache)

\* The introductory message naming a declared stack.
Introduction(stack) ==
    <<"Great! Based on your tech stack (">> \o join(<<", ">>, stack)
        \o <<"), ", "I'd like to ask you a few technical questions.\n\n",
             "Question 1: ">>

\* C18: the turn that accepts the tech_stack answer ends in the
\* tech_questions step with index 0, the cache generated from the declared
\* entries, and the reply the introduction plus question 1, which is about
\* the first declared entry.
C18_FirstQuestionOnEntry ==
    (Accepted /\ call.step = "tech_stack") =>
        LET stack == DeclaredStack(call.msg)
        IN  /\ current_step = "tech_questions"
            /\ current_question_index = 0
            /\ tech_questions_cache = ExpectedQuestions(stack)
            /\ response =
                  Introduction(stack)
                      \o <<"What are the main features and benefits of ">>
                      \o stack[1] \o <<"?">>
            /\ call.msg = StackOfFour => stack = <<Python, React, NodeJs, Go>>
            /\ call.msg = StackOfDuplicates =>
                  stack = <<Go, <<"g", "o">>, << >>, Go>>

C18_Witness ==
    /\ Accepted
    /\ call.step = "tech_stack"
    /\ call.msg = StackOfDuplicates
    /\ current_step = "tech_questions"
    /\ current_question_index = 0
    /\ response =
          <<"Great! Based on your tech stack (", "G", "o", ", ", "g", "o", ", ", ", ",
            "G", "o", "), ", "I'd like to ask you a few technical questions.\n\n",
            "Question 1: ", "What are the main features and benefits of ",
            "G", "o", "?">>

\* C20: a cached question set has exactly 5 questions, an accepted tech_stack
\* answer declares at least one entry, every cached question is about the
\* first or the second entry or is a general one, and the general questions
\* are in the set only when exactly one entry was declared.
C20_AlwaysFiveQuestions ==
    /\ tech_questions_cache # << >> => Len(tech_questions_cache) = 5
    /\ (Accepted /\ call.step = "tech_stack") =>
          LET stack == DeclaredStack(call.msg)
              asked == { tech_questions_cache[i] : i \in 1..Len(tech_questions_cache) }
              about(k) == { tech_templates(stack[k])[j] : j \in 1..3 }
              general == { general_questions[j] : j \in 1..2 }
          IN  /\ Len(stack) >= 1
              /\ Len(stack) = 1 => asked = about(1) \cup general
              /\ Len(stack) >= 2 => asked \subseteq about(1) \cup about(2)
              /\ asked \cap general # {} => Len(stack) = 1

C20_Witness ==
    /\ Accepted
    /\ call.step = "tech_stack"
    /\ call.msg = StackOfFour
    /\ Len(tech_questions_cache) = 5
    /\ tech_questions_cache[5] =
          <<"Can you describe a challenging problem you solved using ">>
              \o React \o <<"?">>

----------------------------------------------------------------------------
(* C14, C15: the helpers of utils.py as functions *)

\* The distinct lower-cased words of a word list that lie in a word set.
DistinctIn(words, wordset) ==
    Cardinality({ lower(words[i]) : i \in 1..Len(words) } \cap wordset)

\* C14: analyze_sentiment answers positive exactly when strictly more distinct
\* lower-cased words of the text are positive words than negative words,
\* negative exactly when strictly fewer, and neutral on every tie; it answers
\* nothing else.
C14_SentimentByDistinctWords ==
    call.op = "analyze_sentiment" =>
        LET p == DistinctIn(call.words, positive_words)
            n == DistinctIn(call.words, negative_words)
        IN  /\ response \in {"positive", "negative", "neutral"}
            /\ response = "positive" <=> p > n
            /\ response = "negative" <=> p < n
            /\ response = "neutral" <=> p = n

C14_Witness ==
    /\ call.op = "analyze_sentiment"
    /\ call.words = <<<<"g", "o", "o", "d">>, <<"g", "o", "o", "d">>, <<"b", "a", "d">>>>
    /\ response = "neutral"

\* Position p of the text lies in a tag: a '<' at or before it with no '>'
\* in between, and a '>' at or after it.
InTag(text, p) ==
    /\ \E j \in p..Len(text) : text[j] = ">"
    /\ \E i \in 1..p : text[i] = "<" /\ \A k \in i..(p - 1) : text[k] # ">"

\* The characters of the text at the positions of P, in the text's order.
RECURSIVE PickFrom(_, _, _)
PickFrom(text, P, p) ==
    IF p > Len(text) THEN << >>
    ELSE (IF p \in P THEN <<text[p]>> ELSE << >>) \o PickFrom(text, P, p + 1)

\* The text without its tags and special characters, cut to its first and
\* last character that is not whitespace.
Sanitized(text) ==
    LET surviving == { p \in 1..Len(text) :
                           ~InTag(text, p) /\ text[p] \notin {";", "\\", "/"} }
        solid == { p \in surviving : text[p] \notin Whitespace }
    IN  PickFrom(text,
                 { p \in surviving : /\ \E q \in solid : q <= p
                                     /\ \E q \in solid : q >= p },
                 1)

\* C15: sanitize_input returns the text without its tags and without ';',
\* backslash and '/', trimmed, the other characters in their order; the
\* result has no special character, no '<' with a '>' after it, no whitespace
\* at either end, and sanitizing it again returns it unchanged.
C15_SanitizeRemovesAndTrims ==
    call.op = "sanitize_input" =>
        /\ response = Sanitized(call.text)
        /\ \A p \in 1..Len(response) : response[p] \notin {";", "\\", "/"}
        /\ \A p \in 1..Len(response) : \A q \in (p + 1)..Len(response) :
               ~(response[p] = "<" /\ response[q] = ">")
        /\ response # << >> =>
               /\ response[1] \notin Whitespace
               /\ response[Len(response)] \notin Whitespace
        /\ sanitize_input(response) = response

C15_Witness ==
    /\ call.op = "sanitize_input"
    /\ call.text = ScriptExample
    /\ response = <<"a", "l", "e", "r", "t", "(", "1", ")", "h", "e", "l", "l", "o", " ", "w", "o", "r", "l", "d", "t", "e", "s", "t">>

----------------------------------------------------------------------------
(* C13: turn-taking in the chat loop *)

UserMessages == SelectSeq(messages, LAMBDA m : m.role = "user")

RECURSIVE Tags(_)
Tags(msgs) ==
    IF msgs = << >> THEN << >> ELSE <<Head(msgs).sentiment>> \o Tags(Tail(msgs))

\* A submitted message leaves the transcript as it was and adds to its end
\* exactly one user message, holding the sanitized text, and then exactly one
\* assistant message, holding the reply.
TurnAppendsUserThenAssistant ==
    [][call'.op = "main" =>
           /\ Len(messages') = Len(messages) + 2
           /\ SubSeq(messages', 1, Len(messages)) = messages
           /\ messages'[Len(messages) + 1].role = "user"
           /\ messages'[Len(messages) + 1].content = call'.msg
           /\ messages'[Len(messages) + 2] =
                  [role |-> "assistant", content |-> response']]_vars

\* The transcript alternates user, assistant, starting with user and ending
\* with assistant, and sentiment_history holds the tags of the user messages,
\* one each, in their order.
TranscriptAlternates ==
    /\ Len(messages) % 2 = 0
    /\ \A i \in 1..Len(messages) :
           messages[i].role = (IF i % 2 = 1 THEN "user" ELSE "assistant")
    /\ candidate_info.sentiment_history = Tags(UserMessages)
    /\ Len(candidate_info.sentiment_history) = Len(UserMessages)

\* C13: every submitted user message appends exactly one user message and
\* then exactly one assistant message to an otherwise unchanged transcript;
\* the transcript always alternates user, assistant starting with user, and
\* sentiment_history has one tag per user message in the same order.
C13_TurnTaking == []TranscriptAlternates /\ TurnAppendsUserThenAssistant

C13_Witness ==
    /\ call.op = "main"
    /\ Len(messages) = 2 * MaxTurns
    /\ candidate_info.sentiment_history[1] = "positive"
    /\ candidate_info.sentiment_history[2] = "negative"

----------------------------------------------------------------------------
(* C16, C19: save_candidate_data *)

\* The call of session s has returned, and no other session has called.
RanAlone(s) ==
    /\ saver[s].pc \in {"saved", "swallowed"}
    /\ \A o \in Sessions \ {s} : saver[o].pc = "idle"

\* The text is a digest, not a plaintext.
IsDigest(text) == Len(text) > 0 /\ text[1] = "sha256("

\* The record as it is to be stored: email and phone as digests, every other
\* field as given.
Stored(info, rec) ==
    /\ rec.email = hash_sensitive_data(info.email)
    /\ rec.phone = hash_sensitive_data(info.phone)
    /\ rec.email # info.email
    /\ rec.phone # info.phone
    /\ \A k \in DOMAIN info \ {"email", "phone"} : rec[k] = info[k]
    /\ DOMAIN rec = DOMAIN info

\* C16: a call on its own that saves leaves the store holding what it held
\* before (nothing, if it was absent or unparsable) followed by the one new
\* record, whose email and phone are digests and whose other fields are the
\* input's; no stored record ever holds a plaintext email or phone; the
\* caller's record is never changed; every call ends by returning, saved or
\* with its failure swallowed.
C16_SaveHashesAndAppends ==
    /\ \A s \in Sessions :
           /\ saver[s].info = call.info[s]
           /\ saver[s].pc \in {"idle", "hashed", "loaded", "appended", "opened",
                               "saved", "swallowed"}
           /\ RanAlone(s) /\ saver[s].pc = "saved" =>
                  /\ store.kind = "list"
                  /\ Len(store.data) =
                         (IF call.store.kind = "list"
                          THEN Len(call.store.data) ELSE 0) + 1
                  /\ call.store.kind = "list" =>
                         SubSeq(store.data, 1, Len(call.store.data))
                             = call.store.data
                  /\ Stored(call.info[s], store.data[Len(store.data)])
    /\ \A i \in 1..Len(store.data) :
           /\ IsDigest(store.data[i].email)
           /\ IsDigest(store.data[i].phone)

C16_Witness ==
    /\ RanAlone(1)
    /\ saver[1].pc = "saved"
    /\ call.store.kind = "corrupt"
    /\ call.info[1].email = Email
    /\ Len(store.data) = 1

\* C19: once every session's call has completed with its record saved, the
\* store holds the records stored before and the new record of each session.
C19_ConcurrentSavesKeepBoth ==
    (\A s \in Sessions : saver[s].pc = "saved") =>
        /\ store.kind = "list"
        /\ Len(store.data) = Len(load_existing(call.store)) + Cardinality(Sessions)
        /\ SubSeq(store.data, 1, Len(load_existing(call.store)))
               = load_existing(call.store)
        /\ \A s \in Sessions : \E i \in 1..Len(store.data) :
               store.data[i] = saver[s].secure_info

----------------------------------------------------------------------------
(* C21: progress of a session whose user keeps answering *)

\* The message is one the user of the claim sends: no exit keyword in it.
StaysOn(msgs) == ~MentionsExit(last_content(msgs))

\* The message is valid for the step the session is at. The first message of
\* a session and the answers to the technical questions need no validity.
ValidHere(msgs) ==
    (conversation_started /\ current_step \in FieldSteps)
        => RefValid(current_step, last_content(msgs))

\* A get_response call of a user who never sends an exit keyword.
NextProgress ==
    \E msgs \in Transcripts : StaysOn(msgs) /\ GetResponse(msgs)

\* Such a call with a message that is valid for the current step.
ValidTurn ==
    \E msgs \in Transcripts :
        StaysOn(msgs) /\ ValidHere(msgs) /\ GetResponse(msgs)

\* The user never sends an exit keyword and, at every step, eventually sends
\* a message that is valid for it.
SpecProgress == Init /\ [][NextProgress]_vars /\ WF_vars(ValidTurn)

\* The greeting turn, the accepted answers to the seven fields, and the
\* answers to the five technical questions.
ShortestRun == 1 + Cardinality(FieldSteps) + 5

\* C21: the session eventually reaches the tech_questions step and, from
\* there, eventually sets tech_questions_asked, whatever invalid messages come
\* in between; no run sets it in fewer than 13 get_response calls.
C21_Progress ==
    /\ <>(current_step = "tech_questions")
    /\ (current_step = "tech_questions") ~> candidate_info.tech_questions_asked
    /\ [](candidate_info.tech_questions_asked
              => get_response_calls >= ShortestRun)

\* A run of exactly 13 calls has set tech_questions_asked.
C21_Witness ==
    /\ candidate_info.tech_questions_asked
    /\ get_response_calls = 13
    /\ current_step = "tech_questions"
    /\ call.op = "get_response"

====
